---- MODULE Spec2Model ----
(***************************************************************************)
(* warp-theme-creator: the colour selection pipeline.                      *)
(*                                                                         *)
(* A colour string "#rrggbb" is the record [r, g, b, up]: its three        *)
(* channels and the case of its hex letters (up is FALSE for a string      *)
(* without letters, so that equal strings are equal records).  The code    *)
(* compares colour strings as strings ("#FFFFFF" in colors), so the case   *)
(* is part of the value.                                                   *)
(*                                                                         *)
(* The code computes in double precision.  The model computes the same     *)
(* quantities exactly, scaled to integers; where a comparison or a         *)
(* rounding of the code falls exactly on a boundary of the exact value,    *)
(* the double-precision error decides, and the model carries the outcome   *)
(* the code produces there (the *Skew tables) or, for round(), both        *)
(* neighbours (RoundTies).                                                 *)
(***************************************************************************)
EXTENDS Integers, Sequences, FiniteSets, TLC

VARIABLES
    pc,               \* position of the run
    parsed_args,      \* main: the options of the invocation
    categorized_colors, \* extract_theme_colors: category -> set of colours
    logo_colors,      \* extract_theme_colors: colours of the logo images, in order
    dominant_colors,  \* select_colors_for_theme: the candidates, heaviest first
    image,            \* select_colors_for_theme: the screenshot
    theme_colors,     \* main: the {accent, background, foreground} triple
    terminal_colors,  \* main: the 16 slots of generate_terminal_colors
    colors,           \* select_*_color: the candidate list
    prefer_dark,      \* select_background_color: the flag
    background,       \* select_foreground_color: the argument
    ret,              \* what the run returned
    rgb,              \* rgb_to_hsl: the argument
    hsl,              \* rgb_to_hsl: the result handed to hsl_to_rgb
    resources,        \* main: what fetch_website_resources returned
    hex_color,        \* hex_to_rgb: the argument, a text
    css_content,      \* extract_css_colors*: the style sheet
    image_data,       \* extract_image_colors*: the bytes of the image
    background_image, \* create_theme: the argument
    opacity,          \* create_theme: the argument, in hundredths
    template,         \* ThemeGenerator: self.template
    themes            \* the themes one generator returned, oldest first

vars == <<pc, parsed_args, categorized_colors, logo_colors, dominant_colors,
          image, theme_colors, terminal_colors, colors, prefer_dark,
          background, ret, rgb, hsl, resources, hex_color, css_content,
          image_data, background_image, opacity, template, themes>>

pipelineVars == <<parsed_args, categorized_colors, logo_colors, dominant_colors,
                  image, theme_colors, terminal_colors, resources>>
selectVars == <<colors, prefer_dark, background>>
hslVars == <<rgb, hsl>>
callVars == <<hex_color, css_content, image_data, background_image, opacity,
              template, themes>>

None == [none |-> TRUE]

Max(a, b) == IF a >= b THEN a ELSE b
Min(a, b) == IF a <= b THEN a ELSE b
Max3(t) == Max(t[1], Max(t[2], t[3]))
Min3(t) == Min(t[1], Min(t[2], t[3]))
Abs(a) == IF a < 0 THEN -a ELSE a

(* ------------------------------ colour strings ------------------------ *)

HasLetter(t) == \E i \in 1..3 : (t[i] \div 16) >= 10 \/ (t[i] % 16) >= 10

\* The string "#rrggbb" written with lower-case (up = FALSE) or upper-case letters.
Hex(t, up) == [r |-> t[1], g |-> t[2], b |-> t[3], up |-> up /\ HasLetter(t)]

\* ColorExtractor.hex_to_rgb: int(.., 16) reads either case.
hex_to_rgb(c) == <<c.r, c.g, c.b>>

\* ColorExtractor.rgb_to_hex: f'#{r:02x}{g:02x}{b:02x}' writes lower case.
rgb_to_hex(t) == Hex(t, FALSE)

\* ScreenshotExtractor.rgb_to_hex: the same string, .upper().
screenshot_rgb_to_hex(t) == Hex(t, TRUE)

\* The literals of the code.
DefaultAccent == Hex(<<0, 135, 215>>, TRUE)       \* "#0087D7"
DefaultDark == Hex(<<30, 30, 30>>, TRUE)          \* "#1E1E1E"
White == Hex(<<255, 255, 255>>, TRUE)             \* "#FFFFFF"
Black == Hex(<<0, 0, 0>>, TRUE)                   \* "#000000"
Red == Hex(<<255, 0, 0>>, TRUE)                   \* "#FF0000"

(* ------------------------------ brightness ---------------------------- *)

\* Colours whose exact brightness is 0.1, 0.2, 0.5, 0.8 or 0.9 and whose
\* double-precision brightness is just below that value.
BrightnessSkewDown == {
    <<0,204,68>>, <<3,39,15>>, <<6,78,30>>, <<12,174,191>>, <<15,195,75>>, <<18,30,22>>,
    <<23,175,157>>, <<30,186,82>>, <<32,70,3>>, <<36,60,44>>, <<38,166,164>>, <<40,50,85>>,
    <<41,187,48>>, <<47,61,10>>, <<51,51,51>>, <<53,157,171>>, <<56,178,55>>, <<59,31,133>>,
    <<64,158,137>>, <<71,169,62>>, <<74,4,9>>, <<77,43,24>>, <<79,149,144>>, <<86,160,69>>,
    <<87,129,226>>, <<92,34,31>>, <<94,140,151>>, <<97,161,35>>, <<100,14,113>>, <<102,120,233>>,
    <<112,152,42>>, <<117,111,240>>, <<120,132,124>>, <<127,143,49>>, <<129,249,169>>, <<132,102,247>>,
    <<133,17,11>>, <<133,239,210>>, <<135,123,131>>, <<138,144,15>>, <<143,103,213>>, <<144,240,176>>,
    <<147,93,254>>, <<148,8,18>>, <<153,135,22>>, <<155,241,142>>, <<158,94,220>>, <<159,231,183>>,
    <<161,115,104>>, <<162,252,67>>, <<168,126,29>>, <<173,85,227>>, <<174,222,190>>, <<176,106,111>>,
    <<185,223,156>>, <<188,76,234>>, <<188,244,40>>, <<189,213,197>>, <<194,118,2>>, <<198,108,43>>,
    <<199,77,200>>, <<204,204,204>>, <<209,109,9>>, <<211,215,129>>, <<214,68,207>>, <<214,236,13>>,
    <<214,254,144>>, <<217,89,91>>, <<218,244,185>>, <<219,195,211>>, <<224,100,16>>, <<225,255,110>>,
    <<226,206,136>>, <<232,80,98>>, <<234,186,218>>, <<239,91,23>>, <<240,60,180>>, <<240,246,117>>,
    <<241,197,143>>, <<255,51,187>>, <<255,237,124>>}

\* The same, with the double-precision brightness just above the exact value.
BrightnessSkewUp == {
    <<122,16,45>>, <<192,234,81>>, <<196,242,253>>, <<218,58,248>>, <<248,226,199>>}

\* ColorExtractor._get_color_brightness, in units of 1/510000:
\* (0.299 r + 0.587 g + 0.114 b) / 255, one half-unit down or up where the
\* double differs from an exact 0.1, 0.2, 0.5, 0.8 or 0.9.
_get_color_brightness(c) ==
    2 * (299 * c.r + 587 * c.g + 114 * c.b)
      + (IF hex_to_rgb(c) \in BrightnessSkewUp THEN 1
         ELSE IF hex_to_rgb(c) \in BrightnessSkewDown THEN -1 ELSE 0)

\* ColorExtractor._is_dark_color: brightness < 0.5.
_is_dark_color(c) == _get_color_brightness(c) < 255000

\* ScreenshotExtractor.get_color_brightness, in units of 1/1000 (no double
\* falls on the other side of 128 or 240 than its exact value).
get_color_brightness(c) == 299 * c.r + 587 * c.g + 114 * c.b

\* ScreenshotExtractor.is_light_color with the default threshold 128.0.
is_light_color(c) == get_color_brightness(c) > 128000

(* ------------------------------ saturation ---------------------------- *)

\* (max, min) with (max - min) / max exactly 0.3 and the double above 0.3.
SaturationSkewUp == {<<70,49>>, <<110,77>>, <<140,98>>, <<150,105>>,
                     <<210,147>>, <<220,154>>, <<230,161>>}

\* ColorExtractor._get_color_saturation as the fraction <<num, den>>:
\* 0 when max is 0, else (max - min) / max.
_get_color_saturation(c) ==
    LET t == hex_to_rgb(c)
    IN IF Max3(t) = 0 THEN <<0, 1>> ELSE <<Max3(t) - Min3(t), Max3(t)>>

\* saturation > n/10 for the thresholds 0.5 and 0.3 of select_accent_color.
SaturationAbove(c, n) ==
    LET s == _get_color_saturation(c)
    IN \/ 10 * s[1] > n * s[2]
       \/ n = 3 /\ <<Max3(hex_to_rgb(c)), Min3(hex_to_rgb(c))>> \in SaturationSkewUp

\* s1 > s2 for two saturations, as the sort of select_accent_color compares.
SaturationGreater(s1, s2) == s1[1] * s2[2] > s2[1] * s1[2]

(* ------------------------------ utils.py ------------------------------ *)

\* round(n / d), d > 0, of a double whose exact value is n / d: the nearest
\* integer; on an exact tie the double lies on either side (or on the tie,
\* which Python resolves to the even neighbour), so both neighbours.
RoundTies(n, d) ==
    LET q == n \div d
        m == n % d
    IN IF 2 * m < d THEN {q} ELSE IF 2 * m > d THEN {q + 1} ELSE {q, q + 1}

\* int(c * factor) clamped to 0..255, factor = f/4 (exact in binary).
ScaleChannel(c, f) == Min(255, Max(0, (c * f) \div 4))

\* utils.adjust_color_brightness.
adjust_color_brightness(c, f) ==
    rgb_to_hex(<<ScaleChannel(c.r, f), ScaleChannel(c.g, f), ScaleChannel(c.b, f)>>)

\* The hue of rgb_to_hsl before rounding, in sextants, as <<num, den>>.
HueSextant(t) ==
    LET cmax == Max3(t)
        delta == Max3(t) - Min3(t)
    IN IF delta = 0 THEN <<0, 1>>
       ELSE IF cmax = t[1] THEN <<(t[2] - t[3]) % (6 * delta), delta>>
       ELSE IF cmax = t[2] THEN <<(t[3] - t[1]) + 2 * delta, delta>>
       ELSE <<(t[1] - t[2]) + 4 * delta, delta>>

\* The <<cmax, cmin>> whose saturation is exactly 1 and whose double
\* delta / (1 - abs(2 * l - 1)) is above 1.
HslSaturationSkewUp ==
    {<<1, 0>>, <<2, 0>>, <<3, 0>>, <<4, 0>>, <<9, 0>>, <<10, 0>>, <<11, 0>>,
     <<17, 0>>, <<18, 0>>, <<19, 0>>, <<20, 0>>, <<25, 0>>, <<26, 0>>,
     <<27, 0>>, <<33, 0>>, <<34, 0>>, <<35, 0>>, <<36, 0>>, <<41, 0>>,
     <<42, 0>>, <<49, 0>>, <<50, 0>>, <<51, 0>>, <<52, 0>>, <<57, 0>>,
     <<58, 0>>, <<66, 0>>, <<67, 0>>, <<68, 0>>, <<69, 0>>, <<82, 0>>,
     <<83, 0>>, <<84, 0>>, <<85, 0>>, <<98, 0>>, <<99, 0>>, <<100, 0>>,
     <<101, 0>>, <<114, 0>>, <<115, 0>>, <<116, 0>>, <<117, 0>>, <<255, 9>>,
     <<255, 10>>, <<255, 11>>, <<255, 24>>, <<255, 25>>, <<255, 26>>,
     <<255, 27>>, <<255, 41>>, <<255, 42>>, <<255, 55>>, <<255, 56>>,
     <<255, 57>>, <<255, 58>>, <<255, 86>>, <<255, 87>>, <<255, 88>>,
     <<255, 89>>, <<255, 118>>, <<255, 119>>, <<255, 120>>, <<255, 121>>,
     <<255, 148>>, <<255, 149>>, <<255, 150>>, <<255, 151>>, <<255, 152>>,
     <<255, 153>>, <<255, 154>>, <<255, 155>>, <<255, 180>>, <<255, 181>>,
     <<255, 182>>, <<255, 183>>, <<255, 184>>, <<255, 185>>, <<255, 186>>,
     <<255, 187>>, <<255, 212>>, <<255, 213>>, <<255, 214>>, <<255, 215>>,
     <<255, 216>>, <<255, 217>>, <<255, 218>>, <<255, 219>>, <<255, 244>>,
     <<255, 245>>, <<255, 246>>, <<255, 247>>, <<255, 248>>, <<255, 249>>,
     <<255, 250>>, <<255, 251>>}

\* utils.rgb_to_hsl: the results [h, s, l] it can return; h in whole degrees,
\* s the fraction <<num, den>> (over: its double exceeds 1), l the numerator
\* of (cmax + cmin) / 510.
rgb_to_hsl(t) ==
    LET cmax == Max3(t)
        cmin == Min3(t)
        delta == cmax - cmin
        hs == HueSextant(t)
    IN { [h |-> IF h0 < 0 THEN h0 + 360 ELSE h0,
          s |-> IF delta = 0 THEN <<0, 1>>
                ELSE <<delta, 255 - Abs(cmax + cmin - 255)>>,
          over |-> <<cmax, cmin>> \in HslSaturationSkewUp,
          l |-> cmax + cmin] : h0 \in RoundTies(hs[1] * 60, hs[2]) }

\* hue_to_rgb(p, q, t) of hsl_to_rgb, times 255: p = pn/d, q = qn/d, t = T/360;
\* the result is the fraction <<num, den>> with den a multiple of 510.
hue_to_rgb(pn, qn, d, T0) ==
    LET T1 == IF T0 < 0 THEN T0 + 360 ELSE T0
        T == IF T1 > 360 THEN T1 - 360 ELSE T1
    IN IF T < 60 THEN <<60 * pn + (qn - pn) * T, 60 * d>>
       ELSE IF T < 180 THEN <<qn, d>>
       ELSE IF T < 240 THEN <<60 * pn + (qn - pn) * (240 - T), 60 * d>>
       ELSE <<pn, d>>

\* utils.hsl_to_rgb: the triples it can return.  With l = ln/510 and
\* s = sn/sd, p and q are fractions over 510 * sd, and a channel times 255
\* is a fraction over 2 * sd (times 60 on the slopes).
hsl_to_rgb(x) ==
    LET sn == x.s[1]
        sd == x.s[2]
        ln == x.l
        qn == IF ln < 255 THEN ln * (sd + sn) ELSE ln * sd + 510 * sn - ln * sn
        pn == 2 * ln * sd - qn
        cr == hue_to_rgb(pn, qn, 2 * sd, x.h + 120)
        cg == hue_to_rgb(pn, qn, 2 * sd, x.h)
        cb == hue_to_rgb(pn, qn, 2 * sd, x.h - 120)
    IN IF sn = 0 THEN { <<v, v, v>> : v \in RoundTies(ln, 2) }
       ELSE { <<r, g, b>> : r \in RoundTies(cr[1], cr[2]),
                            g \in RoundTies(cg[1], cg[2]),
                            b \in RoundTies(cb[1], cb[2]) }

\* s * factor clamped to [0, 1], factor = f/4.
ScaleSaturation(s, f) ==
    IF s[1] * f >= 4 * s[2] THEN <<1, 1>>
    ELSE IF s[1] * f <= 0 THEN <<0, 1>> ELSE <<s[1] * f, 4 * s[2]>>

\* utils.adjust_color_saturation: the colours it can return.
adjust_color_saturation(c, f) ==
    UNION { { rgb_to_hex(t) : t \in hsl_to_rgb([x EXCEPT !.s = ScaleSaturation(x.s, f)]) }
            : x \in rgb_to_hsl(hex_to_rgb(c)) }

(* ------------------------------ selection policy ---------------------- *)

\* candidates.append(..) of select_accent_color: the colours of the list
\* with lo < brightness < hi (in tenths) and saturation > sat (in tenths).
AccentCandidates(cs, lo, hi, sat) ==
    SelectSeq(cs, LAMBDA c : /\ lo * 51000 < _get_color_brightness(c)
                             /\ _get_color_brightness(c) < hi * 51000
                             /\ SaturationAbove(c, sat))

\* One insertion of list.sort(key=saturation, reverse=True): c goes behind
\* every colour that does not compare below it (the sort is stable).
RECURSIVE InsertBySaturation(_, _)
InsertBySaturation(sorted, c) ==
    IF sorted = <<>> THEN <<c>>
    ELSE IF SaturationGreater(_get_color_saturation(c), _get_color_saturation(Head(sorted)))
         THEN <<c>> \o sorted
         ELSE <<Head(sorted)>> \o InsertBySaturation(Tail(sorted), c)

RECURSIVE SortBySaturation(_)
SortBySaturation(cs) ==
    IF cs = <<>> THEN <<>>
    ELSE InsertBySaturation(SortBySaturation(SubSeq(cs, 1, Len(cs) - 1)), cs[Len(cs)])

\* select_accent_color without the sort: the first colour of the band.
select_accent_color_unsorted(cs) ==
    IF cs = <<>> THEN DefaultAccent
    ELSE LET strict == AccentCandidates(cs, 2, 8, 5)
             candidates == IF strict # <<>> THEN strict
                           ELSE AccentCandidates(cs, 1, 9, 3)
         IN IF candidates # <<>> THEN Head(candidates)
            ELSE cs[1]

\* ColorExtractor.select_accent_color.
select_accent_color(cs) ==
    IF cs = <<>> THEN DefaultAccent
    ELSE LET strict == AccentCandidates(cs, 2, 8, 5)
             candidates == IF strict # <<>> THEN strict
                           ELSE AccentCandidates(cs, 1, 9, 3)
         IN IF candidates # <<>> THEN Head(SortBySaturation(candidates))
            ELSE cs[1]

InList(c, cs) == \E i \in 1..Len(cs) : cs[i] = c

\* The fixture of test_select_background_color, matched as strings.
F0F0F0 == Hex(<<240, 240, 240>>, TRUE)
EEEEEE == Hex(<<238, 238, 238>>, TRUE)

\* ColorExtractor.select_background_color.
select_background_color(cs, dark) ==
    IF cs = <<>> THEN (IF dark THEN DefaultDark ELSE White)
    ELSE IF InList(White, cs) /\ InList(F0F0F0, cs) /\ InList(EEEEEE, cs) THEN DefaultDark
    ELSE LET dark_colors == SelectSeq(cs, LAMBDA c : _is_dark_color(c))
             light_colors == SelectSeq(cs, LAMBDA c : ~_is_dark_color(c))
         IN IF dark /\ dark_colors # <<>> THEN dark_colors[1]
            ELSE IF ~dark /\ light_colors # <<>> THEN light_colors[1]
            ELSE IF dark_colors # <<>> THEN dark_colors[1]
            ELSE IF light_colors # <<>> THEN light_colors[1]
            ELSE (IF dark THEN DefaultDark ELSE White)

\* select_foreground_color with the threshold 0.5 counted as dark.
select_foreground_color_inclusive(bg) ==
    IF _get_color_brightness(bg) <= 255000 THEN White ELSE Black

\* ColorExtractor.select_foreground_color.
select_foreground_color(bg) == IF _is_dark_color(bg) THEN White ELSE Black

\* select_colors_for_theme, "Determine text color based on background".
screenshot_foreground(bg) == IF ~is_light_color(bg) THEN White ELSE DefaultDark

(* ------------------------------ terminal palette ---------------------- *)

\* ColorExtractor._color_complement.
_color_complement(c) == rgb_to_hex(<<255 - c.r, 255 - c.g, 255 - c.b>>)

\* <<r, g, b, i>>: channel i of the colour, times 1.3 * (1 - brightness * 0.5),
\* is an exact integer and its double is just below it.
BrightenSkewDown == {
    <<86,178,200,3>>, <<102,12,197,1>>, <<117,3,204,3>>, <<150,6,102,3>>, <<184,170,221,2>>,
    <<250,140,55,1>>, <<254,100,161,2>>}

\* The same for 0.8 * (0.5 + brightness * 0.5).
DarkenSkewDown == {
    <<7,125,188,2>>, <<11,243,255,3>>, <<12,126,125,3>>, <<13,125,217,2>>, <<34,254,149,1>>,
    <<50,100,25,1>>, <<50,100,25,2>>, <<50,100,25,3>>, <<50,118,156,1>>, <<56,88,250,3>>,
    <<80,100,170,2>>, <<90,228,136,3>>, <<100,98,16,1>>, <<100,116,147,1>>, <<102,33,204,3>>,
    <<102,76,10,1>>, <<114,72,225,3>>, <<121,83,150,3>>, <<123,231,34,3>>, <<125,73,191,1>>,
    <<128,94,75,3>>, <<137,76,200,3>>, <<147,75,123,2>>, <<150,96,7,1>>, <<152,100,93,2>>,
    <<167,91,100,3>>, <<171,183,175,3>>, <<175,173,216,1>>, <<194,252,255,3>>, <<196,8,250,3>>,
    <<200,28,226,1>>, <<214,50,76,2>>, <<225,51,42,1>>, <<227,255,153,2>>, <<250,2,184,1>>,
    <<255,133,6,1>>, <<255,169,18,1>>}

\* ColorExtractor._brighten_color(hex_color, 1.3):
\* min(255, int(channel * 1.3 * (1 - brightness * 0.5))).
_brighten_color(c) ==
    LET e == 299 * c.r + 587 * c.g + 114 * c.b
        t == hex_to_rgb(c)
        ch(i) == Min(255, (t[i] * 13 * (510000 - e)) \div 5100000
                          - (IF <<c.r, c.g, c.b, i>> \in BrightenSkewDown THEN 1 ELSE 0))
    IN rgb_to_hex(<<ch(1), ch(2), ch(3)>>)

\* ColorExtractor._darken_color(hex_color, 0.8):
\* max(0, int(channel * 0.8 * (0.5 + brightness * 0.5))).
_darken_color(c) ==
    LET e == 299 * c.r + 587 * c.g + 114 * c.b
        t == hex_to_rgb(c)
        ch(i) == Max(0, (t[i] * 4 * (255000 + e)) \div 2550000
                        - (IF <<c.r, c.g, c.b, i>> \in DarkenSkewDown THEN 1 ELSE 0))
    IN rgb_to_hex(<<ch(1), ch(2), ch(3)>>)

\* <<base, accent>>: 0.85 * base + 0.15 * accent is an exact integer and its
\* double is just below it, for the channels of the two base palettes.
HarmonySkewDown == {
    <<57,17>>, <<57,37>>, <<57,57>>, <<57,77>>, <<57,97>>, <<67,7>>, <<67,27>>, <<67,47>>,
    <<129,9>>, <<129,29>>, <<129,49>>, <<129,69>>, <<129,89>>, <<129,109>>, <<139,19>>, <<139,39>>,
    <<139,59>>, <<193,13>>, <<193,33>>, <<193,53>>, <<193,73>>, <<193,93>>, <<193,113>>, <<193,133>>,
    <<193,153>>, <<193,173>>, <<193,193>>, <<193,213>>, <<193,233>>, <<193,253>>, <<198,18>>, <<198,38>>,
    <<198,58>>, <<198,78>>, <<198,98>>, <<198,118>>, <<198,138>>, <<198,158>>, <<198,178>>, <<198,198>>,
    <<198,218>>, <<198,238>>, <<208,8>>, <<208,28>>, <<208,48>>, <<208,68>>, <<208,88>>, <<208,108>>,
    <<208,128>>, <<208,148>>, <<208,168>>, <<208,188>>, <<208,208>>, <<208,228>>, <<208,248>>, <<218,18>>,
    <<218,38>>, <<218,58>>, <<218,78>>, <<218,98>>, <<218,118>>, <<218,138>>, <<218,158>>, <<218,178>>,
    <<218,198>>, <<218,218>>, <<218,238>>, <<233,13>>, <<233,33>>, <<233,53>>, <<233,73>>, <<233,93>>,
    <<233,113>>, <<233,133>>, <<233,153>>, <<233,173>>, <<233,193>>, <<233,213>>, <<233,233>>, <<233,253>>,
    <<253,13>>, <<253,33>>, <<253,53>>, <<253,73>>, <<253,93>>, <<253,113>>, <<253,133>>, <<253,153>>,
    <<253,173>>, <<253,193>>, <<253,213>>, <<253,233>>, <<253,253>>}

\* One channel of _adjust_color_harmony: min(255, max(0, int(c * 0.85 + a * 0.15))).
HarmonyChannel(c, a) ==
    Min(255, Max(0, (17 * c + 3 * a) \div 20
                    - (IF <<c, a>> \in HarmonySkewDown THEN 1 ELSE 0)))

\* _adjust_color_harmony without the shift toward the accent.
_adjust_color_harmony_unshifted(cs, accent) ==
    [i \in 1..Len(cs) |-> rgb_to_hex(hex_to_rgb(cs[i]))]

\* ColorExtractor._adjust_color_harmony.
_adjust_color_harmony(cs, accent) ==
    [i \in 1..Len(cs) |->
        rgb_to_hex(<<HarmonyChannel(cs[i].r, accent.r),
                     HarmonyChannel(cs[i].g, accent.g),
                     HarmonyChannel(cs[i].b, accent.b)>>)]

\* The base palettes of generate_terminal_colors: red, green, yellow, magenta,
\* cyan and their bright variants, for a dark and for a light background.
DarkBase ==
    << Hex(<<255, 85, 85>>, TRUE), Hex(<<80, 250, 123>>, TRUE), Hex(<<241, 250, 140>>, TRUE),
       Hex(<<255, 121, 198>>, TRUE), Hex(<<139, 233, 253>>, TRUE), Hex(<<255, 110, 103>>, TRUE),
       Hex(<<90, 247, 142>>, TRUE), Hex(<<244, 249, 157>>, TRUE), Hex(<<255, 146, 208>>, TRUE),
       Hex(<<154, 237, 254>>, TRUE) >>
LightBase ==
    << Hex(<<229, 57, 53>>, TRUE), Hex(<<67, 160, 71>>, TRUE), Hex(<<255, 179, 0>>, TRUE),
       Hex(<<216, 27, 96>>, TRUE), Hex(<<0, 172, 193>>, TRUE), Hex(<<255, 82, 82>>, TRUE),
       Hex(<<105, 240, 174>>, TRUE), Hex(<<255, 215, 64>>, TRUE), Hex(<<255, 64, 129>>, TRUE),
       Hex(<<100, 255, 218>>, TRUE) >>

\* generate_terminal_colors writing the accent back through rgb_to_hex.
generate_terminal_colors_normalised(accent, bg) ==
    LET is_dark_bg == _is_dark_color(bg)
        harmonized == _adjust_color_harmony(IF is_dark_bg THEN DarkBase ELSE LightBase, accent)
    IN [ black |-> IF is_dark_bg /\ _get_color_brightness(bg) < 51000 THEN bg
                   ELSE Hex(<<45, 42, 46>>, TRUE),
         red |-> harmonized[1],
         green |-> harmonized[2],
         yellow |-> harmonized[3],
         blue |-> rgb_to_hex(hex_to_rgb(accent)),
         magenta |-> harmonized[4],
         cyan |-> harmonized[5],
         white |-> IF is_dark_bg THEN Hex(<<191, 191, 191>>, TRUE)
                   ELSE IF _get_color_brightness(bg) > 459000 THEN bg
                   ELSE Hex(<<248, 248, 242>>, TRUE),
         bright_black |-> Hex(<<114, 112, 114>>, TRUE),
         bright_red |-> harmonized[6],
         bright_green |-> harmonized[7],
         bright_yellow |-> harmonized[8],
         bright_blue |-> IF is_dark_bg THEN _brighten_color(accent) ELSE _darken_color(accent),
         bright_magenta |-> harmonized[9],
         bright_cyan |-> harmonized[10],
         bright_white |-> IF is_dark_bg THEN Hex(<<248, 248, 242>>, TRUE) ELSE White ]

\* ColorExtractor.generate_terminal_colors.
generate_terminal_colors(accent, bg) ==
    LET is_dark_bg == _is_dark_color(bg)
        harmonized == _adjust_color_harmony(IF is_dark_bg THEN DarkBase ELSE LightBase, accent)
    IN [ black |-> IF is_dark_bg /\ _get_color_brightness(bg) < 51000 THEN bg
                   ELSE Hex(<<45, 42, 46>>, TRUE),
         red |-> harmonized[1],
         green |-> harmonized[2],
         yellow |-> harmonized[3],
         blue |-> accent,
         magenta |-> harmonized[4],
         cyan |-> harmonized[5],
         white |-> IF is_dark_bg THEN Hex(<<191, 191, 191>>, TRUE)
                   ELSE IF _get_color_brightness(bg) > 459000 THEN bg
                   ELSE Hex(<<248, 248, 242>>, TRUE),
         bright_black |-> Hex(<<114, 112, 114>>, TRUE),
         bright_red |-> harmonized[6],
         bright_green |-> harmonized[7],
         bright_yellow |-> harmonized[8],
         bright_blue |-> IF is_dark_bg THEN _brighten_color(accent) ELSE _darken_color(accent),
         bright_magenta |-> harmonized[9],
         bright_cyan |-> harmonized[10],
         bright_white |-> IF is_dark_bg THEN Hex(<<248, 248, 242>>, TRUE) ELSE White ]

(* ------------------------------ screenshots.py ------------------------ *)

\* The candidates of select_colors_for_theme are (hex, percentage) pairs,
\* heaviest first; the percentage is only printed, so a candidate list is
\* the sequence of its colours.  A screenshot is [width, height, split, top,
\* body]: rows 0 .. split - 1 have colour top, the rows below colour body.

ValueError == [raised |-> "ValueError"]

getpixel(img, x, y) == IF y < img.split THEN img.top ELSE img.body

\* ScreenshotExtractor.get_color_distance, squared (sqrt is monotone and
\* exact on the squares 900 and 2500 it is compared with).
get_color_distance2(t1, t2) ==
    (t1[1] - t2[1]) * (t1[1] - t2[1]) + (t1[2] - t2[2]) * (t1[2] - t2[2])
      + (t1[3] - t2[3]) * (t1[3] - t2[3])

\* range(0, n, step) for step > 0.
Range(n, step) == {k * step : k \in 0..((n - 1) \div step)}

\* ScreenshotExtractor.is_background_color with edge_sample_size = 50 raises
\* ValueError: range() gets the step 0 on a screenshot under 50 pixels.
is_background_color_raises(c, img) ==
    /\ get_color_brightness(c) <= 240000
    /\ (img.width \div 50 = 0 \/ img.height \div 50 = 0)

\* ScreenshotExtractor.is_background_color where it returns.
is_background_color(c, img) ==
    IF get_color_brightness(c) > 240000 THEN TRUE
    ELSE LET xs == Range(img.width, img.width \div 50)
             ys == Range(img.height, img.height \div 50)
             near(x, y) == get_color_distance2(hex_to_rgb(c), getpixel(img, x, y)) < 900
             matches == Cardinality({x \in xs : near(x, 0)})
                          + Cardinality({x \in xs : near(x, img.height - 1)})
                          + Cardinality({y \in ys : near(0, y)})
                          + Cardinality({y \in ys : near(img.width - 1, y)})
         IN 4 * matches > 2 * Cardinality(xs) + 2 * Cardinality(ys)

\* _get_fallback_colors without the inverse foreground.
_get_fallback_colors_fixed_foreground(prefer_light) ==
    [background |-> IF prefer_light THEN White ELSE DefaultDark,
     foreground |-> White,
     accent |-> DefaultAccent]

\* ScreenshotExtractor._get_fallback_colors.
_get_fallback_colors(prefer_light) ==
    [background |-> IF prefer_light THEN White ELSE DefaultDark,
     foreground |-> IF prefer_light THEN DefaultDark ELSE White,
     accent |-> DefaultAccent]

IsRedish(c) == c.r > 150 /\ c.g < 100 /\ c.b < 100

\* ScreenshotExtractor._analyze_and_print_colors: the last red-ish candidate.
_analyze_and_print_colors(dom) ==
    LET reds == SelectSeq(dom, IsRedish)
    IN IF reds = <<>> THEN None ELSE reds[Len(reds)]

\* ScreenshotExtractor._categorize_colors: <<potential_backgrounds,
\* potential_accents>>, or ValueError when is_background_color raises.
_categorize_colors(dom, img) ==
    IF \E k \in 1..Len(dom) : is_background_color_raises(dom[k], img) THEN ValueError
    ELSE LET bgs == SelectSeq(dom, LAMBDA c : is_background_color(c, img))
             accs == SelectSeq(dom, LAMBDA c : ~is_background_color(c, img))
             potential_backgrounds == IF bgs = <<>> THEN dom ELSE bgs
             potential_accents ==
                 IF accs = <<>>
                 THEN SelectSeq(dom, LAMBDA c : ~InList(c, potential_backgrounds))
                 ELSE accs
         IN <<potential_backgrounds, potential_accents>>

Gray33 == Hex(<<51, 51, 51>>, TRUE)               \* "#333333"

\* ScreenshotExtractor._select_background.
_select_background_first(potential_backgrounds, prefer_light) ==
    IF potential_backgrounds # <<>> THEN potential_backgrounds[1]
    ELSE IF prefer_light THEN White ELSE DefaultDark

_select_background(potential_backgrounds, prefer_light) ==
    IF InList(Gray33, potential_backgrounds) /\ ~prefer_light THEN Gray33
    ELSE IF prefer_light
    THEN LET light_backgrounds == SelectSeq(potential_backgrounds, is_light_color)
         IN IF light_backgrounds # <<>> THEN light_backgrounds[1] ELSE White
    ELSE LET dark_backgrounds ==
                 SelectSeq(potential_backgrounds, LAMBDA c : ~is_light_color(c))
         IN IF dark_backgrounds # <<>> THEN dark_backgrounds[1] ELSE DefaultDark

RedkeyD == Hex(<<198, 38, 45>>, TRUE)             \* "#C6262D"
RedkeyE == Hex(<<198, 38, 46>>, TRUE)             \* "#C6262E"

\* ScreenshotExtractor._select_accent.
_select_accent(potential_accents, dom, bg, fg, redkey_accent) ==
    LET fg_is_light == is_light_color(fg)
        fits == SelectSeq(potential_accents,
                   LAMBDA c : /\ get_color_distance2(hex_to_rgb(bg), hex_to_rgb(c)) >= 2500
                              /\ is_light_color(c) = fg_is_light)
        accent == IF fits = <<>> THEN None ELSE fits[1]
    IN IF redkey_accent # None THEN redkey_accent
       ELSE IF accent = None /\ potential_accents # <<>> THEN potential_accents[1]
       ELSE IF InList(RedkeyD, dom) THEN RedkeyD
       ELSE IF InList(RedkeyE, dom) THEN RedkeyE
       ELSE IF accent = None THEN DefaultAccent
       ELSE accent

\* ScreenshotExtractor.select_colors_for_theme: the triple, or ValueError.
select_colors_for_theme(dom, img, prefer_light) ==
    IF Len(dom) = 4 /\ InList(Gray33, dom) /\ ~prefer_light
    THEN [background |-> Gray33, foreground |-> White,
          accent |-> IF InList(Red, dom) THEN Red ELSE DefaultAccent]
    ELSE IF dom = <<>> THEN _get_fallback_colors(prefer_light)
    ELSE LET redkey_accent == _analyze_and_print_colors(dom)
             cat == _categorize_colors(dom, img)
         IN IF cat = ValueError THEN ValueError
            ELSE LET bg == _select_background(cat[1], prefer_light)
                     fg == screenshot_foreground(bg)
                 IN [background |-> bg, foreground |-> fg,
                     accent |-> _select_accent(cat[2], dom, bg, fg, redkey_accent)]

\* The lists over S of length at most n.
Lists(S, n) == UNION { [1..k -> S] : k \in 0..n }

(* ------------------------------ main.py ------------------------------- *)

\* list(set(..)): the orders a Python set of strings can be enumerated in
\* (the order follows the strings' hashes, which change from run to run).
Orders(S) ==
    {s \in [1..Cardinality(S) -> S] : \A x \in S : \E i \in 1..Cardinality(S) : s[i] = x}

\* main.prioritize_accent_candidates, on the enumerated categories.
prioritize_accent_candidates(logo, cat) ==
    IF logo # <<>>
    THEN logo \o cat.accent \o cat.border \o cat.color \o cat.background
    ELSE cat.accent \o cat.image \o cat.border \o cat.color \o cat.background

\* main.extract_theme_colors from the candidates on: cat is the enumeration
\* of each category, all_colors the enumeration of every colour found.
extract_theme_colors(logo, cat, all_colors, prefer_light) ==
    LET accent_candidates == prioritize_accent_candidates(logo, cat)
        accent_color == IF accent_candidates # <<>>
                        THEN select_accent_color(accent_candidates)
                        ELSE DefaultAccent
        background_candidates == cat.background \o all_colors
        background_color ==
            IF background_candidates # <<>>
            THEN select_background_color(background_candidates, ~prefer_light)
            ELSE (IF prefer_light THEN White ELSE DefaultDark)
    IN [accent |-> accent_color,
        background |-> background_color,
        foreground |-> select_foreground_color(background_color)]

\* all_colors of extract_theme_colors before list(set(..)): every colour of
\* every category (the image colours are added to both).
AllColors(cat) ==
    cat.background \cup cat.color \cup cat.border \cup cat.accent \cup cat.image

\* The triples extract_theme_colors can return for the categories cat (sets)
\* and the logo colours: one for every enumeration of the sets.
ThemeColorOutcomes(logo, cat, prefer_light) ==
    { extract_theme_colors(logo, e, e.all_colors, prefer_light) :
        e \in [background : Orders(cat.background), color : Orders(cat.color),
               border : Orders(cat.border), accent : Orders(cat.accent),
               image : Orders(cat.image), all_colors : Orders(AllColors(cat))] }

\* The loop body of apply_color_adjustments: the colours one colour can
\* become; the factors are brightness/4 and saturation/4.
AdjustColor(color, brightness, saturation) ==
    LET adjusted == IF brightness # 4 THEN adjust_color_brightness(color, brightness)
                    ELSE color
    IN IF saturation # 4 THEN adjust_color_saturation(adjusted, saturation)
       ELSE {adjusted}

\* main.apply_color_adjustments: the triples it can return.
apply_color_adjustments(tc, brightness, saturation) ==
    IF brightness = 4 /\ saturation = 4 THEN {tc}
    ELSE [accent : AdjustColor(tc.accent, brightness, saturation),
          background : AdjustColor(tc.background, brightness, saturation),
          foreground : AdjustColor(tc.foreground, brightness, saturation)]

\* No background image: None or the empty path.
NoBackgroundImage == ""

\* The default of --background-opacity, 0.8, in hundredths.
DefaultOpacity == 80

\* ThemeGenerator.__init__: the template, with the defaults of the slots.
NewTemplate ==
    [accent |-> DefaultAccent, background |-> DefaultDark, foreground |-> White,
     details |-> "darker",
     terminal_colors |->
        [normal |-> [black |-> Hex(<<0, 0, 0>>, TRUE),
                     red |-> Hex(<<255, 85, 85>>, TRUE),
                     green |-> Hex(<<80, 250, 123>>, TRUE),
                     yellow |-> Hex(<<241, 250, 140>>, TRUE),
                     blue |-> Hex(<<0, 135, 215>>, TRUE),
                     magenta |-> Hex(<<255, 121, 198>>, TRUE),
                     cyan |-> Hex(<<139, 233, 253>>, TRUE),
                     white |-> Hex(<<191, 191, 191>>, TRUE)],
         bright |-> [black |-> Hex(<<77, 77, 77>>, TRUE),
                     red |-> Hex(<<255, 110, 103>>, TRUE),
                     green |-> Hex(<<90, 247, 142>>, TRUE),
                     yellow |-> Hex(<<244, 249, 157>>, TRUE),
                     blue |-> Hex(<<111, 193, 255>>, TRUE),
                     magenta |-> Hex(<<255, 146, 208>>, TRUE),
                     cyan |-> Hex(<<154, 237, 254>>, TRUE),
                     white |-> Hex(<<255, 255, 255>>, TRUE)]]]

\* f"bright_{color_name}"
bright_name ==
    [black |-> "bright_black", red |-> "bright_red", green |-> "bright_green",
     yellow |-> "bright_yellow", blue |-> "bright_blue",
     magenta |-> "bright_magenta", cyan |-> "bright_cyan",
     white |-> "bright_white"]

\* create_theme, the loop over the slots when it runs over the names of
\* terminal_colors and builds the two dictionaries anew.
set_terminal_colors_given_only(nested, tc) ==
    [normal |-> [c \in {n \in DOMAIN nested.normal : n \in DOMAIN tc} |-> tc[c]],
     bright |-> [c \in {n \in DOMAIN nested.bright : bright_name[n] \in DOMAIN tc}
                    |-> tc[bright_name[c]]]]

\* create_theme, the loop over the slots: it runs over the names found in
\* theme["terminal_colors"], the dictionary of the template itself, and
\* writes into it the slots terminal_colors carries.
set_terminal_colors(nested, tc) ==
    [normal |-> [c \in DOMAIN nested.normal |->
                    IF c \in DOMAIN tc THEN tc[c] ELSE nested.normal[c]],
     bright |-> [c \in DOMAIN nested.bright |->
                    IF bright_name[c] \in DOMAIN tc THEN tc[bright_name[c]]
                    ELSE nested.bright[c]]]

\* ThemeGenerator.create_theme on a generator whose template is tmpl.
\* self.template.copy() copies the top level only: 'theme' holds the
\* entries of its own, its "terminal_colors" is the dictionary of the
\* template, and 'template' is the template the call leaves behind.
\* The name of the theme is left out.
create_theme(tmpl, accent, bg, fg, tc, bg_image, bg_opacity) ==
    LET top == [accent |-> accent, background |-> bg, foreground |-> fg,
                details |-> tmpl.details]
    IN  [theme |-> IF bg_image # NoBackgroundImage
                   THEN top @@ [background_image |->
                                  [path |-> bg_image, opacity |-> bg_opacity]]
                   ELSE top,
         template |-> [tmpl EXCEPT !.terminal_colors =
                                      set_terminal_colors(@, tc)]]

\* What a returned theme reads as while the template of its generator is
\* tmpl.
theme_value(theme, tmpl) == theme @@ [terminal_colors |-> tmpl.terminal_colors]

\* create_theme on a generator just constructed.
create_theme_fresh(accent, bg, fg, tc, bg_image, bg_opacity) ==
    LET r == create_theme(NewTemplate, accent, bg, fg, tc, bg_image, bg_opacity)
    IN  theme_value(r.theme, r.template)

(* ------------------------------ one run of main ----------------------- *)

\* Most colour declarations on the fetched page.
MaxDecls == 2

\* --brightness and --saturation, in quarters: 0.5, 1.0, 1.5.
Factors == {2, 4, 6}

\* The colours of the page, as _standardize_color and rgb_to_hex write them:
\* two dark colours, white, and two colours of the strict accent band with
\* the same saturation.
PagePalette ==
    {Hex(<<0, 0, 0>>, FALSE), Hex(<<17, 17, 17>>, FALSE), Hex(<<255, 255, 255>>, FALSE),
     Hex(<<204, 102, 51>>, FALSE)}

ImageBlue == Hex(<<51, 102, 204>>, FALSE)          \* "#3366cc"
ImageOrange == Hex(<<204, 102, 51>>, FALSE)        \* "#cc6633"

CssCategories == {"background", "color", "border", "accent"}

\* The (category, colour) declarations a page can carry.
Declarations ==
    {D \in SUBSET (CssCategories \X PagePalette) : Cardinality(D) <= MaxDecls}

\* The colours of the top logo images, in order, and of the other images.
LogoInputs == {<<>>, <<ImageOrange>>, <<ImageBlue, ImageOrange>>}
GeneralImageInputs == {{}, {ImageBlue}}

\* The screenshots of the browser and the clusters found in them; no
\* round() of an adjustment of these colours falls on an exact tie.
Screenshots ==
    {[width |-> 100, height |-> 100, split |-> 100, top |-> <<255, 255, 255>>,
      body |-> <<255, 255, 255>>],
     [width |-> 120, height |-> 60, split |-> 20, top |-> <<10, 10, 10>>,
      body |-> <<200, 30, 40>>]}

DominantInputs ==
    {<<>>, <<White, Red>>, <<Hex(<<128, 128, 128>>, FALSE)>>,
     <<Gray33, Hex(<<64, 64, 240>>, TRUE)>>,
     <<Hex(<<204, 51, 51>>, TRUE), Hex(<<10, 10, 10>>, TRUE)>>}

Init ==
    /\ pc = "main"
    /\ parsed_args \in [use_screenshot : BOOLEAN, prefer_light : BOOLEAN,
                        brightness : Factors, saturation : Factors]
    /\ categorized_colors = None /\ logo_colors = None
    /\ dominant_colors = None /\ image = None
    /\ theme_colors = None /\ terminal_colors = None
    /\ colors = None /\ prefer_dark = None /\ background = None
    /\ ret = None /\ rgb = None /\ hsl = None
    /\ resources = None /\ hex_color = None /\ css_content = None
    /\ image_data = None
    /\ template = None /\ themes = None
    /\ background_image = None /\ opacity = None

\* main, --use-screenshot: extract_colors_using_screenshot.
ExtractColorsUsingScreenshot ==
    /\ pc = "main"
    /\ parsed_args.use_screenshot
    /\ \E img \in Screenshots, dom \in DominantInputs :
          /\ image' = img
          /\ dominant_colors' = dom
          /\ theme_colors' = select_colors_for_theme(dom, img, parsed_args.prefer_light)
    /\ pc' = "apply_color_adjustments"
    /\ UNCHANGED <<parsed_args, resources, categorized_colors, logo_colors, terminal_colors,
                   selectVars, ret, hslVars, callVars>>

\* main without the test of resources['html']: the extraction goes on with
\* nothing fetched.
FetchWithoutHtmlUnchecked ==
    /\ pc = "main"
    /\ ~parsed_args.use_screenshot
    /\ resources' = [html |-> FALSE, contents_fetched |-> FALSE]
    /\ logo_colors' = <<>>
    /\ categorized_colors' = [background |-> {}, color |-> {}, border |-> {},
                              accent |-> {}, image |-> {}]
    /\ pc' = "extract_theme_colors"
    /\ UNCHANGED <<parsed_args, dominant_colors, image, theme_colors, terminal_colors,
                   selectVars, ret, hslVars, callVars>>

\* main, traditional: fetch_website_resources came back without html, and
\* without having fetched a style sheet or an image.
FetchWithoutHtml ==
    /\ pc = "main"
    /\ ~parsed_args.use_screenshot
    /\ resources' = [html |-> FALSE, contents_fetched |-> FALSE]
    /\ ret' = [exit_code |-> 1]
    /\ pc' = "exit"
    /\ UNCHANGED <<parsed_args, categorized_colors, logo_colors, dominant_colors,
                   image, theme_colors, terminal_colors, selectVars, hslVars, callVars>>

\* main, traditional: fetch_website_resources, and the extraction of
\* extract_theme_colors up to the candidate sets.
FetchWebsiteResources ==
    /\ pc = "main"
    /\ ~parsed_args.use_screenshot
    /\ \E D \in Declarations, logo \in LogoInputs, general \in GeneralImageInputs :
          /\ resources' = [html |-> TRUE, contents_fetched |-> TRUE]
          /\ logo_colors' = logo
          /\ categorized_colors' =
                [background |-> {d[2] : d \in {e \in D : e[1] = "background"}},
                 color |-> {d[2] : d \in {e \in D : e[1] = "color"}},
                 border |-> {d[2] : d \in {e \in D : e[1] = "border"}},
                 accent |-> {d[2] : d \in {e \in D : e[1] = "accent"}},
                 image |-> IF logo # <<>> THEN {logo[i] : i \in 1..Len(logo)}
                           ELSE general]
    /\ pc' = "extract_theme_colors"
    /\ UNCHANGED <<parsed_args, dominant_colors, image, theme_colors, terminal_colors,
                   selectVars, ret, hslVars, callVars>>

\* main, traditional: extract_theme_colors from list(set(..)) on.
ExtractThemeColors ==
    /\ pc = "extract_theme_colors"
    /\ theme_colors' \in ThemeColorOutcomes(logo_colors, categorized_colors,
                                            parsed_args.prefer_light)
    /\ pc' = "apply_color_adjustments"
    /\ UNCHANGED <<parsed_args, resources, categorized_colors, logo_colors, dominant_colors,
                   image, terminal_colors, selectVars, ret, hslVars, callVars>>

ApplyColorAdjustments ==
    /\ pc = "apply_color_adjustments"
    /\ theme_colors' \in apply_color_adjustments(theme_colors, parsed_args.brightness,
                                                 parsed_args.saturation)
    /\ pc' = "generate_terminal_colors"
    /\ UNCHANGED <<parsed_args, resources, categorized_colors, logo_colors, dominant_colors,
                   image, terminal_colors, selectVars, ret, hslVars, callVars>>

GenerateTerminalColors ==
    /\ pc = "generate_terminal_colors"
    /\ terminal_colors' = generate_terminal_colors(theme_colors.accent,
                                                   theme_colors.background)
    /\ pc' = "create_theme"
    /\ UNCHANGED <<parsed_args, resources, categorized_colors, logo_colors, dominant_colors,
                   image, theme_colors, selectVars, ret, hslVars, callVars>>

CreateTheme ==
    /\ pc = "create_theme"
    /\ ret' = [exit_code |-> 0,
               theme |-> create_theme_fresh(theme_colors.accent,
                                            theme_colors.background,
                                            theme_colors.foreground,
                                            terminal_colors,
                                            NoBackgroundImage, DefaultOpacity)]
    /\ pc' = "exit"
    /\ UNCHANGED <<pipelineVars, selectVars, hslVars, callVars>>

Next ==
    \/ ExtractColorsUsingScreenshot
    \/ FetchWithoutHtml
    \/ FetchWebsiteResources
    \/ ExtractThemeColors
    \/ ApplyColorAdjustments
    \/ GenerateTerminalColors
    \/ CreateTheme

Spec == Init /\ [][Next]_vars

(* ------------------------------ one call of select_colors_for_theme --- *)

\* Longest list of clusters.
MaxCandidates == 4

ScreenshotPalette ==
    {Gray33, RedkeyD, Red, White, Hex(<<64, 64, 240>>, TRUE)}

\* A screenshot of one colour, one of two, and one narrower than the edge grid.
ScreenshotInputs ==
    Screenshots \cup
    {[width |-> 49, height |-> 100, split |-> 100, top |-> <<0, 0, 0>>,
      body |-> <<0, 0, 0>>]}

InitScreenshot ==
    /\ pc = "select_colors_for_theme"
    /\ dominant_colors \in Lists(ScreenshotPalette, MaxCandidates)
    /\ image \in ScreenshotInputs
    /\ parsed_args \in [prefer_light : BOOLEAN]
    /\ theme_colors = None
    /\ categorized_colors = None /\ logo_colors = None /\ terminal_colors = None
    /\ colors = None /\ prefer_dark = None /\ background = None
    /\ ret = None /\ rgb = None /\ hsl = None
    /\ resources = None /\ hex_color = None /\ css_content = None
    /\ image_data = None
    /\ template = None /\ themes = None
    /\ background_image = None /\ opacity = None

SelectColorsForTheme ==
    /\ pc = "select_colors_for_theme"
    /\ theme_colors' = select_colors_for_theme(dominant_colors, image,
                                               parsed_args.prefer_light)
    /\ pc' = IF theme_colors' = ValueError THEN "raised" ELSE "returned"
    /\ UNCHANGED <<parsed_args, resources, categorized_colors, logo_colors, dominant_colors,
                   image, terminal_colors, selectVars, ret, hslVars, callVars>>

\* A call of _select_background with the candidates as background-candidates,
\* each with the is_light that _categorize_colors gives it.
SelectBackground ==
    /\ pc = "select_colors_for_theme"
    /\ background' = _select_background(dominant_colors, parsed_args.prefer_light)
    /\ pc' = "background_selected"
    /\ UNCHANGED <<pipelineVars, colors, prefer_dark, ret, hslVars, callVars>>

NextScreenshot == SelectColorsForTheme \/ SelectBackground

SpecScreenshot == InitScreenshot /\ [][NextScreenshot]_vars

(* ------------------------------ the selectors ------------------------- *)

\* Longest candidate list.
MaxLen == 3

Green == Hex(<<0, 255, 0>>, TRUE)
Blue == Hex(<<0, 0, 255>>, TRUE)

\* The candidates: the colours of the tests, the fixture of
\* select_background_color, and colours of each band of select_accent_color:
\* "#cc6633" (strict band, saturation 3/4), "#7a102d" (brightness exactly 0.2,
\* its double above), "#463131" (saturation exactly 0.3, its double above).
\* Equal saturations of these colours are equal doubles.
SelectPalette ==
    {White, F0F0F0, EEEEEE, Black, Red, Green, Blue,
     Hex(<<204, 102, 51>>, FALSE), Hex(<<122, 16, 45>>, FALSE),
     Hex(<<70, 49, 49>>, FALSE)}

\* The backgrounds select_foreground_color is called with: the candidates,
\* mid grey, "#333333", and colours of exact brightness 0.5 ("#00cc44" whose
\* double is below, "#da3af8" above, "#01ade1" equal).
ForegroundInputs ==
    SelectPalette \cup
    {Hex(<<128, 128, 128>>, FALSE), Hex(<<51, 51, 51>>, FALSE),
     Hex(<<0, 204, 68>>, FALSE), Hex(<<218, 58, 248>>, FALSE),
     Hex(<<1, 173, 225>>, FALSE)}

NoRet == [accent |-> None, background |-> None, foreground |-> None]

InitSelect ==
    /\ pc = "select_accent"
    /\ colors \in Lists(SelectPalette, MaxLen)
    /\ prefer_dark \in BOOLEAN
    /\ background = None
    /\ ret = NoRet
    /\ parsed_args = None /\ categorized_colors = None /\ logo_colors = None
    /\ dominant_colors = None /\ image = None /\ theme_colors = None
    /\ terminal_colors = None /\ rgb = None /\ hsl = None
    /\ resources = None /\ hex_color = None /\ css_content = None
    /\ image_data = None
    /\ template = None /\ themes = None
    /\ background_image = None /\ opacity = None

SelectAccentColor ==
    /\ pc = "select_accent"
    /\ ret' = [ret EXCEPT !.accent = select_accent_color(colors)]
    /\ pc' = "select_background"
    /\ UNCHANGED <<pipelineVars, selectVars, hslVars, callVars>>

SelectBackgroundColor ==
    /\ pc = "select_background"
    /\ ret' = [ret EXCEPT !.background = select_background_color(colors, prefer_dark)]
    /\ pc' = "select_foreground"
    /\ UNCHANGED <<pipelineVars, selectVars, hslVars, callVars>>

SelectForegroundColor ==
    /\ pc = "select_foreground"
    /\ \E bg \in ForegroundInputs \cup {ret.background} :
          /\ background' = bg
          /\ ret' = [ret EXCEPT !.foreground = select_foreground_color(bg)]
    /\ pc' = "selected"
    /\ UNCHANGED <<pipelineVars, colors, prefer_dark, hslVars, callVars>>

NextSelect == SelectAccentColor \/ SelectBackgroundColor \/ SelectForegroundColor

SpecSelect == InitSelect /\ [][NextSelect]_vars

(* ------------------------------ rgb <-> hsl --------------------------- *)

\* Bounds of the channel grid the round trip is run on.
GridStep == 15
GridOffsets == 3

Channels == {k * GridStep + o : k \in 0..(255 \div GridStep), o \in 0..(GridOffsets - 1)}
              \cap 0..255

\* No round() of the round trip of t falls on an exact tie: the model and
\* the code then agree on every digit.
RoundTripExact(t) ==
    /\ Cardinality(rgb_to_hsl(t)) = 1
    /\ \A x \in rgb_to_hsl(t) : Cardinality(hsl_to_rgb(x)) = 1

InitHsl ==
    /\ pc = "rgb"
    /\ rgb \in {t \in Channels \X Channels \X Channels : RoundTripExact(t)}
    /\ hsl = None
    /\ ret = None
    /\ parsed_args = None /\ categorized_colors = None /\ logo_colors = None
    /\ dominant_colors = None /\ image = None /\ theme_colors = None
    /\ terminal_colors = None /\ colors = None /\ prefer_dark = None
    /\ background = None
    /\ resources = None /\ hex_color = None /\ css_content = None
    /\ image_data = None
    /\ template = None /\ themes = None
    /\ background_image = None /\ opacity = None

RgbToHsl ==
    /\ pc = "rgb"
    /\ \E x \in rgb_to_hsl(rgb) : hsl' = x
    /\ pc' = "hsl"
    /\ UNCHANGED <<pipelineVars, selectVars, ret, rgb, callVars>>

HslToRgb ==
    /\ pc = "hsl"
    /\ \E t \in hsl_to_rgb(hsl) : ret' = t
    /\ pc' = "rgb_back"
    /\ UNCHANGED <<pipelineVars, selectVars, hslVars, callVars>>

NextHsl == RgbToHsl \/ HslToRgb

SpecHsl == InitHsl /\ [][NextHsl]_vars

(* ------------------------------ hex_to_rgb on texts ------------------- *)

\* A text is a sequence of one-character strings.
LowerDigits ==
    <<"0", "1", "2", "3", "4", "5", "6", "7", "8", "9", "a", "b", "c", "d", "e", "f">>
UpperDigits ==
    <<"0", "1", "2", "3", "4", "5", "6", "7", "8", "9", "A", "B", "C", "D", "E", "F">>

IsHexDigit(c) == \E i \in 1..16 : LowerDigits[i] = c \/ UpperDigits[i] = c
DigitValue(c) == (CHOOSE i \in 1..16 : LowerDigits[i] = c \/ UpperDigits[i] = c) - 1

\* The characters int() strips from both ends of its argument.
Whitespace == {" ", "\t", "\n", "\r", "\f"}

RECURSIVE lstrip(_, _)
lstrip(s, chars) ==
    IF s # <<>> /\ s[1] \in chars THEN lstrip(Tail(s), chars) ELSE s

RECURSIVE rstrip(_, _)
rstrip(s, chars) ==
    IF s # <<>> /\ s[Len(s)] \in chars THEN rstrip(SubSeq(s, 1, Len(s) - 1), chars)
    ELSE s

\* s[i:i+2] of Python, i counted from 0: short or empty past the end.
Slice2(s, i) == SubSeq(s, i + 1, Min(i + 2, Len(s)))

\* int(s, 16) for a text of at most two characters: blanks around an
\* optional sign and at least one digit (no room for "0x" or "_").
Int16Sign(s) ==
    LET t == rstrip(lstrip(s, Whitespace), Whitespace)
    IN  IF t # <<>> /\ t[1] \in {"+", "-"} THEN <<t[1], Tail(t)>> ELSE <<"+", t>>

int16_raises(s) ==
    LET d == Int16Sign(s)[2]
    IN  d = <<>> \/ \E i \in 1..Len(d) : ~IsHexDigit(d[i])

RECURSIVE Int16Digits(_)
Int16Digits(d) ==
    IF d = <<>> THEN 0
    ELSE 16 * Int16Digits(SubSeq(d, 1, Len(d) - 1)) + DigitValue(d[Len(d)])

int16(s) ==
    LET p == Int16Sign(s)
    IN  IF p[1] = "-" THEN 0 - Int16Digits(p[2]) ELSE Int16Digits(p[2])

\* ''.join([c*2 for c in hex_color])
RECURSIVE DoubleEach(_)
DoubleEach(s) ==
    IF s = <<>> THEN <<>> ELSE <<s[1], s[1]>> \o DoubleEach(Tail(s))

\* ColorExtractor.hex_to_rgb on any text: the triple, or ValueError.
HexDigitsOf(text) ==
    LET stripped == lstrip(text, {"#"})
    IN  IF Len(stripped) = 3 THEN DoubleEach(stripped) ELSE stripped

hex_to_rgb_raises(text) ==
    \E i \in {0, 2, 4} : int16_raises(Slice2(HexDigitsOf(text), i))

hex_to_rgb_text(text) ==
    IF hex_to_rgb_raises(text) THEN ValueError
    ELSE <<int16(Slice2(HexDigitsOf(text), 0)), int16(Slice2(HexDigitsOf(text), 2)),
           int16(Slice2(HexDigitsOf(text), 4))>>

\* Longest text handed to hex_to_rgb.
MaxHexLen == 7

\* '#', digits of both cases, a letter that is no digit, a sign and a blank.
HexAlphabet == {"#", "0", "f", "g", "+"}

HexTexts == UNION {[1..n -> HexAlphabet] : n \in 0..MaxHexLen}

InitHex ==
    /\ pc = "hex_to_rgb"
    /\ hex_color \in HexTexts
    /\ ret = None
    /\ parsed_args = None /\ categorized_colors = None /\ logo_colors = None
    /\ dominant_colors = None /\ image = None /\ theme_colors = None
    /\ terminal_colors = None /\ colors = None /\ prefer_dark = None
    /\ background = None /\ rgb = None /\ hsl = None
    /\ resources = None /\ css_content = None /\ image_data = None
    /\ template = None /\ themes = None
    /\ background_image = None /\ opacity = None

HexToRgb ==
    /\ pc = "hex_to_rgb"
    /\ ret' = hex_to_rgb_text(hex_color)
    /\ pc' = IF hex_to_rgb_raises(hex_color) THEN "raised" ELSE "returned"
    /\ UNCHANGED <<pipelineVars, selectVars, hslVars, callVars>>

NextHex == HexToRgb

SpecHex == InitHex /\ [][NextHex]_vars

(* ------------------------------ colours of a style sheet -------------- *)

\* The names of the properties, as texts: background_color is
\* "background-color".
PropertyNames ==
    [background_color |->
        <<"b", "a", "c", "k", "g", "r", "o", "u", "n", "d", "-", "c", "o", "l", "o", "r">>,
     background |-> <<"b", "a", "c", "k", "g", "r", "o", "u", "n", "d">>,
     color |-> <<"c", "o", "l", "o", "r">>,
     border_color |-> <<"b", "o", "r", "d", "e", "r", "-", "c", "o", "l", "o", "r">>,
     border_top_color |->
        <<"b", "o", "r", "d", "e", "r", "-", "t", "o", "p", "-", "c", "o", "l", "o", "r">>,
     border_right_color |->
        <<"b", "o", "r", "d", "e", "r", "-", "r", "i", "g", "h", "t", "-", "c", "o", "l",
          "o", "r">>,
     border_bottom_color |->
        <<"b", "o", "r", "d", "e", "r", "-", "b", "o", "t", "t", "o", "m", "-", "c", "o",
          "l", "o", "r">>,
     border_left_color |->
        <<"b", "o", "r", "d", "e", "r", "-", "l", "e", "f", "t", "-", "c", "o", "l", "o",
          "r">>,
     border |-> <<"b", "o", "r", "d", "e", "r">>,
     box_shadow |-> <<"b", "o", "x", "-", "s", "h", "a", "d", "o", "w">>,
     text_shadow |-> <<"t", "e", "x", "t", "-", "s", "h", "a", "d", "o", "w">>]

\* ColorExtractor._color_properties
_color_properties ==
    [background |-> {PropertyNames.background_color, PropertyNames.background},
     color |-> {PropertyNames.color},
     border |-> {PropertyNames.border_color, PropertyNames.border_top_color, PropertyNames.border_right_color,
                 PropertyNames.border_bottom_color, PropertyNames.border_left_color, PropertyNames.border},
     accent |-> {PropertyNames.box_shadow, PropertyNames.text_shadow}]

\* prop in property_name
IsSubstring(p, s) == \E i \in 0..(Len(s) - Len(p)) : SubSeq(s, i + 1, i + Len(p)) = p

\* The value of a declaration: a '#' followed by hex digits, rgb(r, g, b),
\* rgba(r, g, b, a), or a name.
HexLiteral(d) == [kind |-> "hex", digits |-> d, rgb |-> <<>>, name |-> ""]
RgbLiteral(t) == [kind |-> "rgb", digits |-> <<>>, rgb |-> t, name |-> ""]
RgbaLiteral(t) == [kind |-> "rgba", digits |-> <<>>, rgb |-> t, name |-> ""]
NamedColor(n) == [kind |-> "named", digits |-> <<>>, rgb |-> <<>>, name |-> n]

\* f'{n:02x}'
RECURSIVE ToHex(_)
ToHex(n) ==
    IF n < 16 THEN <<LowerDigits[n + 1]>>
    ELSE ToHex(n \div 16) \o <<LowerDigits[(n % 16) + 1]>>

Format02x(n) == IF n < 16 THEN <<"0">> \o ToHex(n) ELSE ToHex(n)

\* ColorExtractor.rgb_to_hex, as a text.
rgb_to_hex_text(t) == <<"#">> \o Format02x(t[1]) \o Format02x(t[2]) \o Format02x(t[3])

\* str.lower on hex digits.
LowerChar(c) ==
    IF \E i \in 1..16 : UpperDigits[i] = c
    THEN LowerDigits[CHOOSE i \in 1..16 : UpperDigits[i] = c]
    ELSE c

lower(s) == [i \in 1..Len(s) |-> LowerChar(s[i])]

\* named_colors of _standardize_color, by channels.
named_colors ==
    [black |-> <<0, 0, 0>>,
     white |-> <<255, 255, 255>>,
     red |-> <<255, 0, 0>>,
     green |-> <<0, 255, 0>>,
     blue |-> <<0, 0, 255>>,
     yellow |-> <<255, 255, 0>>,
     cyan |-> <<0, 255, 255>>,
     magenta |-> <<255, 0, 255>>,
     gray |-> <<128, 128, 128>>,
     grey |-> <<128, 128, 128>>,
     silver |-> <<192, 192, 192>>,
     maroon |-> <<128, 0, 0>>,
     purple |-> <<128, 0, 128>>,
     fuchsia |-> <<255, 0, 255>>,
     lime |-> <<0, 255, 0>>,
     olive |-> <<128, 128, 0>>,
     navy |-> <<0, 0, 128>>,
     teal |-> <<0, 128, 128>>,
     aqua |-> <<0, 255, 255>>]

\* The re.search of extract_css_colors_categorized in a value: '#' and three
\* to six hex digits, rgb(..) or rgba(..); a name is no match.
color_matches(v) ==
    \/ v.kind = "hex" /\ Len(v.digits) >= 3
    \/ v.kind \in {"rgb", "rgba"}

color_match(v) ==
    IF v.kind = "hex" THEN HexLiteral(SubSeq(v.digits, 1, Min(6, Len(v.digits))))
    ELSE v

\* ColorExtractor._standardize_color: the set of the colour returned, empty
\* for None.
_standardize_color(v) ==
    IF v.kind = "hex" THEN
        IF Len(v.digits) = 3 THEN {<<"#">> \o DoubleEach(lower(v.digits))}
        ELSE IF Len(v.digits) = 6 THEN {<<"#">> \o lower(v.digits)}
        ELSE {}
    ELSE IF v.kind \in {"rgb", "rgba"} THEN {rgb_to_hex_text(v.rgb)}
    ELSE IF v.name \in DOMAIN named_colors THEN {rgb_to_hex_text(named_colors[v.name])}
    ELSE {}

\* What extract_css_colors finds in one value: '#' and exactly three or six
\* hex digits before a word boundary, kept as written, and rgb(..).
CssColorsOfValue(v) ==
    IF v.kind = "hex" /\ Len(v.digits) \in {3, 6} THEN {<<"#">> \o v.digits}
    ELSE IF v.kind = "rgb" THEN {rgb_to_hex_text(v.rgb)}
    ELSE {}

\* ColorExtractor.extract_css_colors, as the set the list is made of.
extract_css_colors(css) == UNION {CssColorsOfValue(d.value) : d \in css}

\* ColorExtractor.extract_css_colors_categorized; parse_fails is whether
\* cssutils raises.
extract_css_colors_categorized(css, parse_fails) ==
    IF css = {} THEN
        [background |-> {}, color |-> {}, border |-> {}, accent |-> {}, image |-> {}]
    ELSE IF parse_fails THEN
        [background |-> extract_css_colors(css), color |-> {}, border |-> {},
         accent |-> {}, image |-> {}]
    ELSE
        LET Of(category) ==
                UNION {_standardize_color(color_match(d.value)) :
                         d \in {e \in css :
                                  /\ color_matches(e.value)
                                  /\ \E prop \in _color_properties[category] :
                                        IsSubstring(prop, e.property)}}
        IN  [background |-> Of("background"), color |-> Of("color"),
             border |-> Of("border"), accent |-> Of("accent"), image |-> {}]

\* Most declarations of a style sheet.
MaxRules == 2

CssProperties ==
    {PropertyNames.background_color, PropertyNames.background, PropertyNames.color, PropertyNames.border_color, PropertyNames.box_shadow}

\* "#333", "#F0F0F0", "#abcd", rgb(0, 123, 255), rgb(300, 0, 0),
\* rgba(1, 2, 3, 0.5), red and navy.
CssValues ==
    {HexLiteral(<<"3", "3", "3">>), HexLiteral(<<"F", "0", "F", "0", "F", "0">>),
     HexLiteral(<<"a", "b", "c", "d">>), RgbLiteral(<<0, 123, 255>>),
     RgbLiteral(<<300, 0, 0>>), RgbaLiteral(<<1, 2, 3>>), NamedColor("red"),
     NamedColor("navy")}

\* The style sheets, as the sets of their declarations.
StyleSheets ==
    {{rules[i] : i \in 1..Len(rules)} :
        rules \in Lists([property : CssProperties, value : CssValues], MaxRules)}

InitCss ==
    /\ pc = "css"
    /\ css_content \in StyleSheets
    /\ ret = None
    /\ parsed_args = None /\ categorized_colors = None /\ logo_colors = None
    /\ dominant_colors = None /\ image = None /\ theme_colors = None
    /\ terminal_colors = None /\ colors = None /\ prefer_dark = None
    /\ background = None /\ rgb = None /\ hsl = None
    /\ resources = None /\ hex_color = None /\ image_data = None
    /\ template = None /\ themes = None
    /\ background_image = None /\ opacity = None

ExtractCssColors ==
    /\ pc = "css"
    /\ ret' = [colors |-> extract_css_colors(css_content)]
    /\ pc' = "extract_css_colors"
    /\ UNCHANGED <<pipelineVars, selectVars, hslVars, callVars>>

ExtractCssColorsCategorized ==
    /\ pc = "css"
    /\ \E parse_fails \in BOOLEAN :
          /\ ret' = extract_css_colors_categorized(css_content, parse_fails)
          /\ pc' = IF parse_fails /\ css_content # {} THEN "categorized_fallback"
                    ELSE "categorized"
    /\ UNCHANGED <<pipelineVars, selectVars, hslVars, callVars>>

NextCss == ExtractCssColors \/ ExtractCssColorsCategorized

SpecCss == InitCss /\ [][NextCss]_vars

(* ------------------------------ colours of an image ------------------- *)

\* The bytes of an image, by what the libraries do with them: whether
\* Image.open decodes them and names a format, whether ColorThief raises and
\* the palette it returns otherwise, whether the analysis of the edges
\* raises and the most common edge pixels it finds otherwise.
NoColors == [raised |-> FALSE, colors |-> <<>>, quantizer |-> FALSE]

PaletteHex(palette) == [i \in 1..Len(palette) |-> rgb_to_hex_text(palette[i])]

\* extract_image_colors inside its outer try: raised says an exception
\* leaves the block, quantizer that ColorThief was constructed.
extract_image_colors_body(data) ==
    IF ~data.decodes THEN NoColors
    ELSE IF ~data.format THEN NoColors
    ELSE IF data.quantizer_raises
         THEN [raised |-> TRUE, colors |-> <<>>, quantizer |-> TRUE]
    ELSE [raised |-> FALSE, colors |-> PaletteHex(data.palette), quantizer |-> TRUE]

extract_image_colors_uncaught(data) == extract_image_colors_body(data)

\* ColorExtractor.extract_image_colors
extract_image_colors(data) ==
    LET r == extract_image_colors_body(data)
    IN  IF r.raised THEN [raised |-> FALSE, colors |-> <<>>, quantizer |-> r.quantizer]
        ELSE r

\* ColorExtractor.extract_image_colors_enhanced; colors is the set the
\* list is made of.
extract_image_colors_enhanced(data) ==
    IF ~data.decodes \/ ~data.format
    THEN [raised |-> FALSE, colors |-> {}, quantizer |-> FALSE]
    ELSE [raised |-> FALSE,
          colors |->
              (IF data.quantizer_raises THEN {}
               ELSE {rgb_to_hex_text(data.palette[i]) : i \in 1..Len(data.palette)})
              \cup
              (IF data.analysis_raises THEN {}
               ELSE {rgb_to_hex_text(data.edges[i]) : i \in 1..Len(data.edges)}),
          quantizer |-> TRUE]

\* Longest palette and longest list of edge colours.
MaxPalette == 2

ImagePixels == {<<51, 102, 204>>, <<204, 102, 51>>, <<255, 255, 255>>}

ImageInputs ==
    [decodes : BOOLEAN, format : BOOLEAN, quantizer_raises : BOOLEAN,
     analysis_raises : BOOLEAN, palette : Lists(ImagePixels, MaxPalette),
     edges : Lists(ImagePixels, MaxPalette)]

InitImage ==
    /\ pc = "image"
    /\ image_data \in ImageInputs
    /\ template = None /\ themes = None
    /\ background_image = None /\ opacity = None
    /\ ret = None
    /\ parsed_args = None /\ categorized_colors = None /\ logo_colors = None
    /\ dominant_colors = None /\ image = None /\ theme_colors = None
    /\ terminal_colors = None /\ colors = None /\ prefer_dark = None
    /\ background = None /\ rgb = None /\ hsl = None
    /\ resources = None /\ hex_color = None /\ css_content = None

ExtractImageColors ==
    /\ pc = "image"
    /\ ret' = extract_image_colors(image_data)
    /\ pc' = "extract_image_colors"
    /\ UNCHANGED <<pipelineVars, selectVars, hslVars, callVars>>

ExtractImageColorsEnhanced ==
    /\ pc = "image"
    /\ ret' = extract_image_colors_enhanced(image_data)
    /\ pc' = "extract_image_colors_enhanced"
    /\ UNCHANGED <<pipelineVars, selectVars, hslVars, callVars>>

NextImage == ExtractImageColors \/ ExtractImageColorsEnhanced

SpecImage == InitImage /\ [][NextImage]_vars

(* ------------------------------ one call of create_theme -------------- *)

ThemePalette == {DefaultAccent, DefaultDark, White}

\* The paths handed to create_theme, and the opacities 0.0, 0.8 and 1.0.
BackgroundImages == {NoBackgroundImage, "path/to/image.jpg", "logo.png"}
Opacities == {0, DefaultOpacity, 100}

InitTheme ==
    /\ pc = "theme"
    /\ theme_colors \in [accent : ThemePalette, background : ThemePalette,
                         foreground : ThemePalette]
    /\ terminal_colors = generate_terminal_colors(theme_colors.accent,
                                                  theme_colors.background)
    /\ background_image \in BackgroundImages
    /\ opacity \in Opacities
    /\ ret = None
    /\ parsed_args = None /\ categorized_colors = None /\ logo_colors = None
    /\ dominant_colors = None /\ image = None
    /\ colors = None /\ prefer_dark = None
    /\ background = None /\ rgb = None /\ hsl = None
    /\ resources = None /\ hex_color = None /\ css_content = None
    /\ image_data = None
    /\ template = None /\ themes = None

CreateThemeCall ==
    /\ pc = "theme"
    /\ ret' = create_theme_fresh(theme_colors.accent, theme_colors.background,
                                 theme_colors.foreground, terminal_colors,
                                 background_image, opacity)
    /\ pc' = "create_theme_returned"
    /\ UNCHANGED <<pipelineVars, selectVars, hslVars, callVars>>

NextTheme == CreateThemeCall

SpecTheme == InitTheme /\ [][NextTheme]_vars

(* ------------------------------ the resize of a screenshot ------------ *)

\* extract_colors_from_image, the size handed to image.resize:
\* int((width / height) * 400) is the exact quotient for the sizes below.
max_size == 400

new_size(width, height) ==
    IF width > height
    THEN [width |-> (width * max_size) \div height, height |-> max_size]
    ELSE [width |-> max_size, height |-> (height * max_size) \div width]

\* The sides of the screenshots: 100, 200, .. pixels.
MaxSideSteps == 12

ImageSides == {100 * k : k \in 1..MaxSideSteps}

InitResize ==
    /\ pc = "extract_colors_from_image"
    /\ image \in [width : ImageSides, height : ImageSides]
    /\ ret = None
    /\ parsed_args = None /\ categorized_colors = None /\ logo_colors = None
    /\ dominant_colors = None /\ theme_colors = None
    /\ terminal_colors = None /\ colors = None /\ prefer_dark = None
    /\ background = None /\ rgb = None /\ hsl = None
    /\ resources = None /\ hex_color = None /\ css_content = None
    /\ image_data = None
    /\ template = None /\ themes = None
    /\ background_image = None /\ opacity = None

ResizeImage ==
    /\ pc = "extract_colors_from_image"
    /\ ret' = new_size(image.width, image.height)
    /\ pc' = "resized"
    /\ UNCHANGED <<pipelineVars, selectVars, hslVars, callVars>>

NextResize == ResizeImage

SpecResize == InitResize /\ [][NextResize]_vars

(* ------------------------------ one generator, several themes --------- *)

\* ThemeGenerator.validate_theme
validate_theme(theme) ==
    LET required_fields == {"accent", "background", "foreground", "terminal_colors"}
        required_colors == {"black", "red", "green", "yellow", "blue", "magenta",
                            "cyan", "white"}
    IN  /\ required_fields \subseteq DOMAIN theme
        /\ {"normal", "bright"} \subseteq DOMAIN theme.terminal_colors
        /\ required_colors \subseteq DOMAIN theme.terminal_colors.normal
        /\ required_colors \subseteq DOMAIN theme.terminal_colors.bright

\* Most calls of create_theme on one generator.
MaxCalls == 2

\* The arguments of a call: a complete, a partial or an empty
\* terminal_colors.
GeneratorCalls ==
    LET triples == {[accent |-> DefaultAccent, background |-> DefaultDark,
                     foreground |-> White],
                    [accent |-> ImageOrange, background |-> White,
                     foreground |-> DefaultDark]}
        dicts(t) == {generate_terminal_colors(t.accent, t.background),
                     [red |-> t.accent, bright_blue |-> ImageBlue],
                     <<>>}
    IN  UNION {[theme_colors : {t}, terminal_colors : dicts(t),
                background_image : {NoBackgroundImage, "logo.png"},
                opacity : {DefaultOpacity, 100}] : t \in triples}

InitGenerator ==
    /\ pc = "generator"
    /\ template = NewTemplate
    /\ themes = <<>>
    /\ ret = None
    /\ theme_colors = None /\ terminal_colors = None
    /\ background_image = None /\ opacity = None
    /\ parsed_args = None /\ categorized_colors = None /\ logo_colors = None
    /\ dominant_colors = None /\ image = None
    /\ colors = None /\ prefer_dark = None
    /\ background = None /\ rgb = None /\ hsl = None
    /\ resources = None /\ hex_color = None /\ css_content = None
    /\ image_data = None

\* One more call of create_theme on the generator; ret is the theme as the
\* caller reads it on return.
CreateThemeOnGenerator ==
    /\ pc = "generator"
    /\ Len(themes) < MaxCalls
    /\ \E call \in GeneratorCalls :
          LET r == create_theme(template, call.theme_colors.accent,
                                call.theme_colors.background,
                                call.theme_colors.foreground,
                                call.terminal_colors, call.background_image,
                                call.opacity)
          IN  /\ theme_colors' = call.theme_colors
              /\ terminal_colors' = call.terminal_colors
              /\ background_image' = call.background_image
              /\ opacity' = call.opacity
              /\ template' = r.template
              /\ themes' = Append(themes, r.theme)
              /\ ret' = theme_value(r.theme, r.template)
    /\ pc' = "generator"
    /\ UNCHANGED <<parsed_args, categorized_colors, logo_colors, dominant_colors,
                   image, resources, selectVars, hslVars, hex_color,
                   css_content, image_data>>

NextGenerator == CreateThemeOnGenerator

SpecGenerator == InitGenerator /\ [][NextGenerator]_vars

(* ------------------------------ properties ---------------------------- *)

\* C1: the 'blue' slot of the palette generate_terminal_colors returns is the
\* accent exactly as passed in, for a dark and for a light background.
BlueIsAccent ==
    terminal_colors # None => terminal_colors.blue = theme_colors.accent

\* A palette for a light background whose accent is the upper-case default.
BlueIsAccentWitness ==
    /\ terminal_colors # None
    /\ theme_colors.accent = DefaultAccent
    /\ terminal_colors.blue = DefaultAccent
    /\ ~_is_dark_color(theme_colors.background)

\* The foreground each path derives from a background.
DerivedForeground(use_screenshot, bg) ==
    IF use_screenshot THEN screenshot_foreground(bg) ELSE select_foreground_color(bg)

\* C2: in the theme main hands to theme creation, on every path and for
\* every adjustment factor, the foreground is the colour derived from the
\* final background: white on a dark one, black or near-black on a light one.
ForegroundFollowsBackground ==
    (ret # None /\ ret.exit_code = 0) =>
        ret.theme.foreground =
            DerivedForeground(parsed_args.use_screenshot, ret.theme.background)

\* C3: extract_theme_colors is deterministic: every enumeration order of the
\* deduplicated candidate sets yields the same accent, background and
\* foreground.
EnumerationOrderIrrelevant ==
    pc = "extract_theme_colors" =>
        Cardinality(ThemeColorOutcomes(logo_colors, categorized_colors,
                                       parsed_args.prefer_light)) = 1

\* C4: for a non-empty candidate list with a red-ish colour (R > 150,
\* G < 100, B < 100), the accent select_colors_for_theme returns is a red-ish
\* candidate of the list.
RedOverride ==
    (/\ pc = "returned"
     /\ \E i \in 1..Len(dominant_colors) : IsRedish(dominant_colors[i])) =>
        /\ InList(theme_colors.accent, dominant_colors)
        /\ IsRedish(theme_colors.accent)

\* c is in the band lo < brightness < hi (tenths), saturation > sat (tenths).
InBand(c, lo, hi, sat) ==
    /\ lo * 51000 < _get_color_brightness(c)
    /\ _get_color_brightness(c) < hi * 51000
    /\ SaturationAbove(c, sat)

\* r is the earliest-listed colour of maximal saturation among those of cs
\* in the band.
EarliestMostSaturated(r, cs, lo, hi, sat) ==
    \E i \in 1..Len(cs) :
        /\ cs[i] = r
        /\ InBand(cs[i], lo, hi, sat)
        /\ \A j \in 1..Len(cs) :
              InBand(cs[j], lo, hi, sat) =>
                 /\ ~SaturationGreater(_get_color_saturation(cs[j]),
                                       _get_color_saturation(cs[i]))
                 /\ j < i => SaturationGreater(_get_color_saturation(cs[i]),
                                               _get_color_saturation(cs[j]))

\* C5: select_accent_color returns '#0087D7' for the empty list; else the
\* earliest-listed colour of maximal saturation of the band 0.2 < brightness
\* < 0.8, saturation > 0.5; if that band is empty, the same of the band 0.1 <
\* brightness < 0.9, saturation > 0.3; if that is empty too, colors[0].
AccentRule ==
    pc # "select_accent" =>
        IF colors = <<>> THEN ret.accent = DefaultAccent
        ELSE IF \E i \in 1..Len(colors) : InBand(colors[i], 2, 8, 5)
        THEN EarliestMostSaturated(ret.accent, colors, 2, 8, 5)
        ELSE IF \E i \in 1..Len(colors) : InBand(colors[i], 1, 9, 3)
        THEN EarliestMostSaturated(ret.accent, colors, 1, 9, 3)
        ELSE ret.accent = colors[1]

\* Two colours of the strict band with the same, maximal saturation, the
\* second listed behind a less saturated colour of the band.
AccentRuleWitness ==
    /\ pc = "select_background"
    /\ colors = <<Hex(<<204, 102, 51>>, FALSE), Red, Green>>
    /\ ret.accent = Red

\* C6: select_background_color(colors, prefer_dark=True) returns '#1E1E1E'
\* for every non-empty list without a dark colour, and the first dark colour
\* of a list that has one.
DarkPreferredBackground ==
    (pc = "select_foreground" /\ prefer_dark /\ colors # <<>>) =>
        LET dark_colors == SelectSeq(colors, _is_dark_color)
        IN IF dark_colors = <<>> THEN ret.background = DefaultDark
           ELSE ret.background = dark_colors[1]

\* C7: for a non-empty list select_background_color returns a member of the
\* list: the first colour of the preferred polarity when there is one, else
\* the first colour of the other polarity.
BackgroundIsMember ==
    (pc = "select_foreground" /\ colors # <<>>) =>
        LET preferred == SelectSeq(colors, LAMBDA c : _is_dark_color(c) = prefer_dark)
        IN /\ InList(ret.background, colors)
           /\ ret.background = IF preferred # <<>> THEN preferred[1] ELSE colors[1]

\* C8: select_foreground_color returns '#FFFFFF' exactly when the luminance
\* (0.299 r + 0.587 g + 0.114 b) / 255 of the background is below 0.5, and
\* '#000000' otherwise.
ForegroundRule ==
    pc = "selected" =>
        /\ ret.foreground = White <=> _get_color_brightness(background) < 255000
        /\ ret.foreground = Black <=> _get_color_brightness(background) >= 255000

\* A background whose luminance is 0.5 to the last bit: black text.
ForegroundRuleWitness ==
    /\ pc = "selected"
    /\ background = Hex(<<1, 173, 225>>, FALSE)
    /\ _get_color_brightness(background) = 255000
    /\ ret.foreground = Black

\* C9: the two foreground rules classify every background alike:
\* _is_dark_color(c) holds exactly when is_light_color(c) does not.
SameClassification ==
    pc = "selected" => (_is_dark_color(background) <=> ~is_light_color(background))

\* C10: hsl_to_rgb(rgb_to_hsl(r, g, b)) differs from (r, g, b) by at most 1
\* in each channel.
RoundTripWithinOne ==
    pc = "rgb_back" => \A i \in 1..3 : Abs(ret[i] - rgb[i]) <= 1

\* C11: the hue rgb_to_hsl returns satisfies 0 <= h < 360 (360 is never
\* returned), s and l are in [0, 1], and h = 0 for an achromatic colour.
HslInRange ==
    hsl # None =>
        /\ 0 <= hsl.h /\ hsl.h < 360
        /\ 0 <= hsl.s[1] /\ hsl.s[1] <= hsl.s[2] /\ ~hsl.over
        /\ 0 <= hsl.l /\ hsl.l <= 510
        /\ (rgb[1] = rgb[2] /\ rgb[2] = rgb[3]) => hsl.h = 0

\* C12: hex_to_rgb raises for every text whose length after the leading '#'
\* is neither 3 nor 6 and for every text with a character that is no hex
\* digit; it returns no triple for such a text.
WithoutLeadingHash(s) == IF s # <<>> /\ s[1] = "#" THEN Tail(s) ELSE s

Malformed(s) ==
    LET t == WithoutLeadingHash(s)
    IN  Len(t) \notin {3, 6} \/ \E i \in 1..Len(t) : ~IsHexDigit(t[i])

MalformedHexRaises ==
    (pc \in {"raised", "returned"} /\ Malformed(hex_color)) => pc = "raised"

\* C13: extract_css_colors_categorized appends the colour of a declaration
\* only to the category whose property list names the property: every
\* colour of a category comes from a declaration of a property of that
\* category's list.
LiteralColors(v) ==
    CssColorsOfValue(v) \cup
    (IF color_matches(v) THEN _standardize_color(color_match(v))
     ELSE _standardize_color(v))

OnlyNamedCategory ==
    pc \in {"categorized", "categorized_fallback"} =>
        \A category \in CssCategories : \A x \in ret[category] :
            \E d \in css_content :
                /\ d.property \in _color_properties[category]
                /\ x \in LiteralColors(d.value)

\* C14: a declaration whose value is one of the supported colour names
\* contributes the hex value of the name to the category of its property.
NamedColorsContribute ==
    pc \in {"categorized", "categorized_fallback"} =>
        \A d \in css_content : \A category \in CssCategories :
            (/\ d.value.kind = "named"
             /\ d.value.name \in DOMAIN named_colors
             /\ d.property \in _color_properties[category])
                => rgb_to_hex_text(named_colors[d.value.name]) \in ret[category]

\* C15: every colour extract_css_colors and extract_css_colors_categorized
\* return is '#' and exactly six hex digits.
IsSixDigitHex(x) ==
    Len(x) = 7 /\ x[1] = "#" /\ \A i \in 2..7 : IsHexDigit(x[i])

ReturnedCssColors ==
    IF pc = "extract_css_colors" THEN ret.colors
    ELSE IF pc \in {"categorized", "categorized_fallback"}
         THEN UNION {ret[category] : category \in CssCategories \cup {"image"}}
    ELSE {}

CssColorsAreSixDigitHex == \A x \in ReturnedCssColors : IsSixDigitHex(x)

HtmlMissing == resources # None /\ ~resources.html

NoHtmlStopsMain ==
    HtmlMissing =>
        /\ pc = "exit"
        /\ ret = [exit_code |-> 1]
        /\ ~resources.contents_fetched
        /\ categorized_colors = None /\ logo_colors = None
        /\ theme_colors = None /\ terminal_colors = None

NoHtmlStopsMainWitness ==
    /\ HtmlMissing
    /\ ~parsed_args.use_screenshot
    /\ pc = "exit"
    /\ ret = [exit_code |-> 1]

\* C18: create_theme called with the background image p and the opacity o
\* returns a theme whose 'background_image' is the path p itself and whose
\* 'background_image_opacity' is o.
BackgroundImageKeys ==
    (pc = "create_theme_returned" /\ background_image # NoBackgroundImage) =>
        /\ "background_image" \in DOMAIN ret
        /\ "background_image_opacity" \in DOMAIN ret
        /\ ret.background_image_opacity = opacity
        /\ ret.background_image = background_image

\* C19: select_colors_for_theme with an empty candidate list returns the
\* fixed triple whatever the image: '#FFFFFF' on '#1E1E1E' text when
\* prefer_light, '#1E1E1E' with '#FFFFFF' text otherwise, accent '#0087D7'.
FallbackTriple ==
    (pc \in {"returned", "raised"} /\ dominant_colors = <<>>) =>
        /\ pc = "returned"
        /\ theme_colors.accent = Hex(<<0, 135, 215>>, TRUE)
        /\ theme_colors.background =
              IF parsed_args.prefer_light THEN Hex(<<255, 255, 255>>, TRUE)
              ELSE Hex(<<30, 30, 30>>, TRUE)
        /\ theme_colors.foreground =
              IF parsed_args.prefer_light THEN Hex(<<30, 30, 30>>, TRUE)
              ELSE Hex(<<255, 255, 255>>, TRUE)

\* No candidate, a light theme, and the screenshot too narrow for
\* is_background_color.
FallbackTripleWitness ==
    /\ pc = "returned"
    /\ dominant_colors = <<>>
    /\ parsed_args.prefer_light
    /\ image.width < 50
    /\ theme_colors.foreground = Hex(<<30, 30, 30>>, TRUE)

\* C20: the screenshot background selection returns, with prefer_light, the
\* first light background-candidate, else '#FFFFFF'; with dark preferred,
\* the first dark one (even when a later one is '#333333'), else '#1E1E1E'.
FirstOr(candidates, default) ==
    IF candidates # <<>> THEN candidates[1] ELSE default

FirstCandidateOfPreferredKind ==
    pc = "background_selected" =>
        background =
            IF parsed_args.prefer_light
            THEN FirstOr(SelectSeq(dominant_colors, is_light_color),
                         Hex(<<255, 255, 255>>, TRUE))
            ELSE FirstOr(SelectSeq(dominant_colors, LAMBDA c : ~is_light_color(c)),
                         Hex(<<30, 30, 30>>, TRUE))

\* C21: for a non-empty candidate list without a red-ish colour,
\* select_colors_for_theme returns as accent the first accent-candidate at
\* distance 50 or more from the background and of the foreground's polarity;
\* the first accent-candidate if none qualifies; '#0087D7' only when there
\* is no accent-candidate.
NoRedish(dom) == \A k \in 1..Len(dom) : ~IsRedish(dom[k])

AccentByRule(accents, bg, fg) ==
    LET fits == SelectSeq(accents,
                   LAMBDA c : /\ get_color_distance2(hex_to_rgb(bg), hex_to_rgb(c)) >= 2500
                              /\ is_light_color(c) = is_light_color(fg))
    IN  IF fits # <<>> THEN fits[1]
        ELSE IF accents # <<>> THEN accents[1]
        ELSE Hex(<<0, 135, 215>>, TRUE)

AccentFollowsRule ==
    (/\ pc = "returned"
     /\ Len(dominant_colors) > 0
     /\ NoRedish(dominant_colors)
     /\ \A k \in 1..Len(dominant_colors) :
           ~is_background_color_raises(dominant_colors[k], image))
        => theme_colors.accent =
              AccentByRule(_categorize_colors(dominant_colors, image)[2],
                           theme_colors.background, theme_colors.foreground)

\* C22: select_colors_for_theme never raises for a non-empty candidate
\* list, whatever the size of the image: it returns a complete triple.
NonEmptyListReturns ==
    (pc \in {"returned", "raised"} /\ Len(dominant_colors) > 0) =>
        /\ pc = "returned"
        /\ DOMAIN theme_colors = {"background", "foreground", "accent"}

\* C23: in the palette of generate_terminal_colors, for either polarity,
\* red, green, yellow, magenta, cyan and their bright variants are, channel
\* by channel, int(0.85 * base + 0.15 * accent) as doubles evaluate it,
\* clamped to 0..255, base being the fixed colour of the slot for the
\* polarity of the background; black,
\* white, bright_black, bright_white, blue and bright_blue are not blended.
BlendTowardAccent(base, accent) ==
    rgb_to_hex(<<HarmonyChannel(base.r, accent.r), HarmonyChannel(base.g, accent.g),
                 HarmonyChannel(base.b, accent.b)>>)

HarmonisedSlots ==
    terminal_colors # None =>
        LET accent == theme_colors.accent
            bg == theme_colors.background
            base == IF _is_dark_color(bg) THEN DarkBase ELSE LightBase
            tc == terminal_colors
        IN  /\ tc.red = BlendTowardAccent(base[1], accent)
            /\ tc.green = BlendTowardAccent(base[2], accent)
            /\ tc.yellow = BlendTowardAccent(base[3], accent)
            /\ tc.magenta = BlendTowardAccent(base[4], accent)
            /\ tc.cyan = BlendTowardAccent(base[5], accent)
            /\ tc.bright_red = BlendTowardAccent(base[6], accent)
            /\ tc.bright_green = BlendTowardAccent(base[7], accent)
            /\ tc.bright_yellow = BlendTowardAccent(base[8], accent)
            /\ tc.bright_magenta = BlendTowardAccent(base[9], accent)
            /\ tc.bright_cyan = BlendTowardAccent(base[10], accent)
            /\ tc.black \in {bg, Hex(<<45, 42, 46>>, TRUE)}
            /\ tc.white \in {bg, Hex(<<191, 191, 191>>, TRUE), Hex(<<248, 248, 242>>, TRUE)}
            /\ tc.bright_black = Hex(<<114, 112, 114>>, TRUE)
            /\ tc.bright_white \in {Hex(<<248, 248, 242>>, TRUE), Hex(<<255, 255, 255>>, TRUE)}
            /\ tc.blue = accent
            /\ tc.bright_blue \in {_brighten_color(accent), _darken_color(accent)}

\* A palette for a light background whose red is no longer the base red.
HarmonisedSlotsWitness ==
    /\ terminal_colors # None
    /\ ~_is_dark_color(theme_colors.background)
    /\ terminal_colors.red # Hex(<<229, 57, 53>>, TRUE)
    /\ terminal_colors.red = BlendTowardAccent(LightBase[1], theme_colors.accent)

\* C24: on a dark background bright_blue is at least as bright as blue, the
\* accent: no channel of bright_blue is below the accent's and its
\* brightness is not below the accent's.
BrightBlueNotDarker ==
    (terminal_colors # None /\ _is_dark_color(theme_colors.background)) =>
        LET blue == terminal_colors.blue
            bright_blue == terminal_colors.bright_blue
        IN  /\ blue = theme_colors.accent
            /\ bright_blue.r >= blue.r /\ bright_blue.g >= blue.g
            /\ bright_blue.b >= blue.b
            /\ _get_color_brightness(bright_blue) >= _get_color_brightness(blue)

\* C25: the resize step of extract_colors_from_image gives dimensions whose
\* larger side is at most 400 pixels, and never enlarges an image whose
\* sides are already at most 400.
LargerSideCapped ==
    pc = "resized" =>
        /\ Max(ret.width, ret.height) <= 400
        /\ Max(image.width, image.height) <= 400 =>
              (ret.width <= image.width /\ ret.height <= image.height)

\* C26: create_theme does not depend on the earlier calls on the same
\* generator: the template is the one __init__ built, and the theme
\* returned is the one a generator just constructed returns for the same
\* arguments, also when terminal_colors leaves slots to the defaults.
CreateThemeIgnoresHistory ==
    (pc = "generator" /\ Len(themes) > 0) =>
        /\ template = NewTemplate
        /\ ret = create_theme_fresh(theme_colors.accent, theme_colors.background,
                                    theme_colors.foreground, terminal_colors,
                                    background_image, opacity)

\* C27: a later create_theme call on the same generator changes no theme
\* returned before it.
ReturnedThemesKept ==
    [][\A k \in 1..Len(themes) :
          theme_value(themes[k], template') = theme_value(themes[k], template)]_vars

\* C30: every theme create_theme returns passes validate_theme, whatever
\* calls came before and whether terminal_colors is complete, partial or
\* empty: accent, background, foreground, and the eight names under both
\* 'normal' and 'bright'.
ReturnedThemesValid ==
    (pc = "generator" /\ Len(themes) > 0) =>
        /\ validate_theme(ret)
        /\ \A k \in 1..Len(themes) : validate_theme(theme_value(themes[k], template))

ReturnedThemesValidWitness ==
    /\ pc = "generator"
    /\ Len(themes) = 2
    /\ DOMAIN terminal_colors = {"red", "bright_blue"}
    /\ validate_theme(ret)
    /\ ret.terminal_colors.normal.red = theme_colors.accent

\* C28: the background select_colors_for_theme returns has the requested
\* polarity, for every candidate list, empty or not, and every image:
\* is_light_color holds of it with prefer_light and fails without.
BackgroundHasRequestedPolarity ==
    pc = "returned" =>
        is_light_color(theme_colors.background) = parsed_args.prefer_light

BackgroundHasRequestedPolarityWitness ==
    /\ pc = "returned"
    /\ Len(dominant_colors) > 0
    /\ parsed_args.prefer_light
    /\ ~InList(White, dominant_colors)
    /\ theme_colors.background = White

\* C29: for a non-empty candidate list the accent select_colors_for_theme
\* returns is not the colour it returns as background.
AccentDiffersFromBackground ==
    (pc = "returned" /\ Len(dominant_colors) > 0) =>
        theme_colors.accent # theme_colors.background

====
